---- MODULE Spec2Model ----
(***************************************************************************)
(* parse_pubmed_xml (pipelines/xml_utils.py) as a state machine, and the    *)
(* code around it: pubmed_xml_parser (pipelines/pubmed_pipeline.py), run   *)
(* and _prepare_baseline_load (main.py), run_deduplication_sweep           *)
(* (pipelines/deduplication.py) and the hard-delete merge as the test      *)
(* suite simulates it (tests/test_compliance_audit.py).                    *)
(*                                                                         *)
(* The generator is modelled statement by statement: the empty-input       *)
(* probe, the iterparse loop over "end" events, the per-record pipeline    *)
(* (flatten mixed content, strip namespaces, serialise, xmltodict.parse,   *)
(* inject _record_type, yield) and the release of the element when the     *)
(* consumer resumes the generator.                                         *)
(*                                                                         *)
(* The lxml tree is a table of nodes in document order.  Node 1 is the     *)
(* document element; a node's parent has a smaller index; "att" says       *)
(* whether the node is still attached to its parent.  Text is a sequence   *)
(* of characters so that concatenation and whitespace stripping are        *)
(* computed, not assumed.                                                  *)
(***************************************************************************)
EXTENDS Naturals, Sequences, FiniteSets, TLC

VARIABLES
    stream,     \* the file object handed to parse_pubmed_xml (input, fixed)
    input,      \* the XML document the stream holds (input, fixed)
    pos,        \* stream position after the probe (bytes consumed by it)
    tree,       \* the lxml element tree, mutated in place by the generator
    evIdx,      \* number of "end" events already taken from iterparse
    cur,        \* the element the generator is suspended on (0: none)
    pc,         \* "start" | "loop" | "yielded" | "done" | "raised" | "closed"
    records,    \* the records yielded so far, in order
    origin,     \* origin[i]: the node records[i] was made from
    releases,   \* how many times the release step (lines 103-105) ran
    error,      \* the exception that left the generator ("" if none)
    \* pubmed_xml_parser
    files,      \* the FileItems handed to the transformer (input, fixed)
    fileIdx,    \* how many of them the for loop has taken
    items,      \* the wrapped records the transformer has emitted, in order
    ppc,        \* "none" | "next" | "parsing" | "done" | "raised"
    perr,       \* the exception that left the transformer ("" if none)
    now,        \* the clock time.time() reads
    \* run and _prepare_baseline_load
    env,        \* the options of run and how its collaborators behave (input, fixed)
    mpc,        \* "none" | "start" | "prepare" | "load" | "dbt" | "returned" | "exited"
    sql,        \* the statements handed to execute_sql, in order
    calls,      \* the calls of pipeline.run and of the dbt runner, in order
    exitCode,   \* the status the process ends with
    \* run_deduplication_sweep
    baseline,   \* the rows of bronze_pubmed_baseline
    updates,    \* the rows of bronze_pubmed_updates
    dpc,        \* "none" | "start" | "done" | "raised"
    \* the hard-delete merge
    table,      \* the rows of the merged table
    batch,      \* the rows of the incoming batch (input, fixed)
    watermark,  \* the greatest ingestion_ts already processed
    runs        \* how many times the merge has run

parseVars == <<stream, input, pos, tree, evIdx, cur, pc, records, origin, releases, error>>
pipeVars == <<files, fileIdx, items, ppc, perr, now>>
mainVars == <<env, mpc, sql, calls, exitCode>>
dedupVars == <<baseline, updates, dpc>>
mergeVars == <<table, batch, watermark, runs>>

\* the extraction, and what runs around and after it
extraction == <<parseVars, pipeVars>>
downstream == <<mainVars, dedupVars, mergeVars>>

\* the state of the code that calls parse_pubmed_xml
caller == <<pipeVars, downstream>>

vars == <<parseVars, pipeVars, mainVars, dedupVars, mergeVars>>

-----------------------------------------------------------------------------
(* Bounds of the model *)

\* largest number of elements in a document of the tree family
MaxNodes == 4

-----------------------------------------------------------------------------
(* Program constants *)

FORCE_LIST_KEYS ==
    { "Author", "ArticleId", "Chemical", "DataBank", "DeleteCitation",
      "ELocationID", "GeneSymbol", "Grant", "Investigator", "Keyword",
      "Language", "MeshHeading", "NameOfSubstance", "Object", "OtherAbstract",
      "OtherID", "PersonalNameSubject", "PMID", "PublicationType", "Reference",
      "SpaceFlightMission", "GeneralNote", "SupplMeshName" }

\* the tags argument of the _flatten_mixed_content call
FlattenTags == <<"ArticleTitle", "AbstractText", "VernacularTitle", "Affiliation">>

\* tag_name in ("PubmedArticle", "DeleteCitation")
RecordRootTags == {"PubmedArticle", "DeleteCitation"}

-----------------------------------------------------------------------------
(* Sequence helpers *)

Range(s) == { s[i] : i \in 1..Len(s) }

RECURSIVE Concat(_)
\* concatenation of a sequence of sequences
Concat(ss) == IF ss = <<>> THEN <<>> ELSE Head(ss) \o Concat(Tail(ss))

\* the indices 1..n as a sequence
Iota(n) == [i \in 1..n |-> i]

\* the sequence f[1], ..., f[n], built element by element
RECURSIVE MapNodes(_, _, _)
MapNodes(f, n, acc) ==
    IF Len(acc) = n THEN acc ELSE MapNodes(f, n, Append(acc, f[Len(acc) + 1]))

-----------------------------------------------------------------------------
(* Text: sequences of characters; " " stands for XML whitespace *)

Whitespace == {" "}

RECURSIVE LStrip(_)
LStrip(s) == IF s # <<>> /\ Head(s) \in Whitespace THEN LStrip(Tail(s)) ELSE s

RECURSIVE RStrip(_)
RStrip(s) ==
    IF s # <<>> /\ s[Len(s)] \in Whitespace
    THEN RStrip(SubSeq(s, 1, Len(s) - 1)) ELSE s

\* Python's str.strip()
Strip(s) == RStrip(LStrip(s))

IsBlank(s) == \A i \in 1..Len(s) : s[i] \in Whitespace

-----------------------------------------------------------------------------
(* The element tree (lxml)                                                 *)
(*   parent  index of the parent element, 0 for the document element       *)
(*   ns      "" (no namespace), "ns" (bound through the prefix ns) or      *)
(*           "dflt" (bound through a default namespace declaration)        *)
(*   tag     the local name                                                *)
(*   attrs   the attributes in order, each [prefix, name, val]             *)
(*   decl    the namespace declarations written on the element:            *)
(*           "ns" for xmlns:ns=..., "dflt" for xmlns=...                   *)
(*   text    the text before the first child                               *)
(*   tail    the text between the end tag and the next sibling             *)
(*   att     whether the element is still linked to its parent             *)

\* the attached children of n, in document order
Children(t, n) == SelectSeq(Iota(Len(t)), LAMBDA i : t[i].parent = n /\ t[i].att)

RECURSIVE IsUnder(_, _, _)
\* n is a proper descendant of a, reachable from a through attached links
IsUnder(t, a, n) ==
    /\ n > a
    /\ t[n].att
    /\ \/ t[n].parent = a
       \/ IsUnder(t, a, t[n].parent)

\* the elements elem.iter() visits: elem and its descendants
Subtree(t, a) == {a} \cup { n \in 1..Len(t) : IsUnder(t, a, n) }

RECURSIVE Ancestors(_, _)
\* the ancestors of n, nearest first (getparent() chain)
Ancestors(t, n) ==
    IF t[n].parent = 0 THEN <<>> ELSE <<t[n].parent>> \o Ancestors(t, t[n].parent)

RECURSIVE PostOrder(_, _)
\* the order in which the closing tags of n's subtree are reached
PostOrder(t, n) ==
    LET kids == Children(t, n)
    IN  Concat([i \in 1..Len(kids) |-> PostOrder(t, kids[i])]) \o <<n>>

\* etree.QName(elem).localname
LocalName(t, n) == t[n].tag

\* isinstance(node.tag, str) and "}" in node.tag
HasNamespace(t, n) == t[n].ns # ""

RECURSIVE BindingNode(_, _, _)
\* the element whose declaration binds prefix p at n (0: an enclosing scope
\* outside the tree, as for the reserved prefix xml)
BindingNode(t, n, p) ==
    IF n = 0 THEN 0
    ELSE IF p \in t[n].decl THEN n
    ELSE BindingNode(t, t[n].parent, p)

-----------------------------------------------------------------------------
(* _flatten_mixed_content *)

RECURSIVE FlatText(_, _)
\* the text of n once every tag inside it has been stripped
FlatText(t, n) ==
    LET kids == Children(t, n)
    IN  t[n].text \o
        Concat([i \in 1..Len(kids) |-> FlatText(t, kids[i]) \o t[kids[i]].tail])

\* a pass that removes the inner elements with their text
DropInner(t, node) ==
    LET upd(i) == IF IsUnder(t, node, i) THEN [t[i] EXCEPT !.att = FALSE] ELSE t[i]
    IN  MapNodes([i \in 1..Len(t) |-> upd(i)], Len(t), <<>>)

\* etree.strip_tags(node, "*"): every element below node is removed, its
\* text and tail merged into node's text
StripTags(t, node) ==
    LET upd(i) ==
            IF i = node THEN [t[i] EXCEPT !.text = FlatText(t, node)]
            ELSE IF IsUnder(t, node, i) THEN [t[i] EXCEPT !.att = FALSE]
            ELSE t[i]
    IN  MapNodes([i \in 1..Len(t) |-> upd(i)], Len(t), <<>>)

\* elem.xpath(".//*[local-name()='tag']"): descendants only, document order
XPathLocalName(t, elem, tag) ==
    SelectSeq(Iota(Len(t)), LAMBDA i : IsUnder(t, elem, i) /\ LocalName(t, i) = tag)

RECURSIVE StripEach(_, _)
\* the inner loop: strip_tags on every node of an xpath result
StripEach(t, nodes) ==
    IF nodes = <<>> THEN t ELSE StripEach(StripTags(t, Head(nodes)), Tail(nodes))

RECURSIVE FlattenMixedContent(_, _, _)
FlattenMixedContent(t, elem, tags) ==
    IF tags = <<>> THEN t
    ELSE FlattenMixedContent(StripEach(t, XPathLocalName(t, elem, Head(tags))),
                             elem, Tail(tags))

-----------------------------------------------------------------------------
(* _strip_namespaces *)

\* the loop over elem.iter(): node.tag = QName(node).localname
StripTagNamespaces(t, elem) ==
    LET upd(i) ==
            IF i \in Subtree(t, elem) /\ HasNamespace(t, i)
            THEN [t[i] EXCEPT !.ns = ""] ELSE t[i]
    IN  MapNodes([i \in 1..Len(t) |-> upd(i)], Len(t), <<>>)

\* a declaration of prefix p on element d is in use when an element or an
\* attribute of the subtree is bound through it
DeclInUse(t, elem, d, p) ==
    \E n \in Subtree(t, elem) :
        \/ t[n].ns = p /\ BindingNode(t, n, p) = d
        \/ \E a \in Range(t[n].attrs) : a.prefix = p /\ BindingNode(t, n, p) = d

\* etree.cleanup_namespaces(elem): drops the declarations written inside the
\* subtree that nothing in the subtree uses
CleanupNamespaces(t, elem) ==
    LET upd(i) ==
            IF i \in Subtree(t, elem)
            THEN [t[i] EXCEPT !.decl = { p \in t[i].decl : DeclInUse(t, elem, i, p) }]
            ELSE t[i]
    IN  MapNodes([i \in 1..Len(t) |-> upd(i)], Len(t), <<>>)

StripNamespaces(t, elem) == CleanupNamespaces(StripTagNamespaces(t, elem), elem)

-----------------------------------------------------------------------------
(* etree.tostring(elem, encoding="unicode")                                *)
(* The serialised element: [name, attrs, text, kids, tail]; attrs is the   *)
(* attribute list as written, namespace declarations first.                *)

\* the name an attribute is written with
AttrQName(a) == IF a.prefix = "" THEN a.name ELSE a.prefix \o ":" \o a.name

\* the attribute a namespace declaration is written as
DeclAttr(p) == [key |-> IF p = "dflt" THEN "xmlns" ELSE "xmlns:" \o p, val |-> <<"u">>]

\* the name an element is written with
ElemQName(t, n) == IF t[n].ns \in {"", "dflt"} THEN t[n].tag ELSE t[n].ns \o ":" \o t[n].tag

DeclOrder == <<"dflt", "ns">>

\* the declarations written on the serialised root: its own, then those of
\* every ancestor (lxml copies the parents' declarations onto the element it
\* serialises), a prefix being written once
RootDecls(t, n) ==
    LET chain == <<n>> \o Ancestors(t, n)
        first(p) == \E i \in 1..Len(chain) : p \in t[chain[i]].decl
    IN  SelectSeq(DeclOrder, first)

OwnDecls(t, n) == SelectSeq(DeclOrder, LAMBDA p : p \in t[n].decl)

RECURSIVE Serialise(_, _, _, _)
Serialise(t, n, isRoot, withTail) ==
    LET decls == IF isRoot THEN RootDecls(t, n) ELSE OwnDecls(t, n)
        kids  == Children(t, n)
    IN  [ name  |-> ElemQName(t, n),
          attrs |-> [i \in 1..Len(decls) |-> DeclAttr(decls[i])] \o
                    [i \in 1..Len(t[n].attrs) |->
                        [key |-> AttrQName(t[n].attrs[i]), val |-> t[n].attrs[i].val]],
          text  |-> t[n].text,
          kids  |-> [i \in 1..Len(kids) |-> Serialise(t, kids[i], FALSE, TRUE)],
          tail  |-> IF withTail THEN t[n].tail ELSE <<>> ]

\* withTail: whether the text after the end tag had been parsed when the
\* "end" event was handled (tostring writes the tail it finds)
EtreeToString(t, elem, withTail) == Serialise(t, elem, TRUE, withTail)

-----------------------------------------------------------------------------
(* xmltodict.parse(xml_str, force_list=FORCE_LIST_KEYS)                    *)
(* Values: None, a string, a list, or a dict kept as its items in          *)
(* insertion order.                                                        *)

None == [k |-> "none"]
Str(s) == [k |-> "str", s |-> s]
List(xs) == [k |-> "list", items |-> xs]
Dict(kvs) == [k |-> "dict", items |-> kvs]

IsDict(v) == v.k = "dict"
IsList(v) == v.k = "list"
Keys(d) == { d.items[i].key : i \in 1..Len(d.items) }
Get(d, key) == (CHOOSE i \in 1..Len(d.items) : d.items[i].key = key)

\* d[key] = v on a Python dict: replaces in place, or appends a new key
DictSet(d, key, v) ==
    IF key \in Keys(d)
    THEN Dict([i \in 1..Len(d.items) |->
                 IF d.items[i].key = key THEN [key |-> key, val |-> v] ELSE d.items[i]])
    ELSE Dict(Append(d.items, [key |-> key, val |-> v]))

\* a parser built without force_list: no name is forced
ShouldForceListNever(key) == FALSE

\* _DictSAXHandler._should_force_list with a tuple of names
ShouldForceList(key) == key \in FORCE_LIST_KEYS

\* a push_data that keeps only the last value of a repeated name
PushDataLast(item, key, data) ==
    DictSet(IF item = None THEN Dict(<<>>) ELSE item, key, data)

\* _DictSAXHandler.push_data
PushData(item, key, data) ==
    LET it == IF item = None THEN Dict(<<>>) ELSE item
    IN  IF key \in Keys(it)
        THEN LET value == it.items[Get(it, key)].val
             IN  IF IsList(value)
                 THEN DictSet(it, key, List(Append(value.items, data)))
                 ELSE DictSet(it, key, List(<<value, data>>))
        ELSE IF ShouldForceList(key)
             THEN DictSet(it, key, List(<<data>>))
             ELSE DictSet(it, key, data)

\* a startElement that stores attributes under their bare names
AttrItemBare(e) ==
    IF e.attrs = <<>> THEN None
    ELSE Dict([i \in 1..Len(e.attrs) |->
                 [key |-> e.attrs[i].key, val |-> Str(e.attrs[i].val)]])

\* startElement: the item starts as the "@"-prefixed attributes, or None
AttrItem(e) ==
    IF e.attrs = <<>> THEN None
    ELSE Dict([i \in 1..Len(e.attrs) |->
                 [key |-> "@" \o e.attrs[i].key, val |-> Str(e.attrs[i].val)]])

\* characters: the text chunks of the element itself, joined
CharData(e) == e.text \o Concat([i \in 1..Len(e.kids) |-> e.kids[i].tail])

\* strip_whitespace=False: the data as it is
KeepData(s) == s

\* strip_whitespace=True: data.strip() or None
StripData(s) == Strip(s)

RECURSIVE ElemValue(_)
RECURSIVE PushKids(_, _)

\* endElement of each child, in order
PushKids(item, kids) ==
    IF kids = <<>> THEN item
    ELSE PushKids(PushData(item, Head(kids).name, ElemValue(Head(kids))), Tail(kids))

\* endElement: what the element contributes to its parent
ElemValue(e) ==
    LET item == PushKids(AttrItem(e), e.kids)
        data == StripData(CharData(e))
    IN  IF item # None
        THEN IF data # <<>> THEN PushData(item, "#text", Str(data)) ELSE item
        ELSE IF data # <<>> THEN Str(data) ELSE None

ExpatError == [k |-> "ExpatError"]

\* character data after the end of the document element is a syntax error
\* for expat unless it is whitespace
XmlToDictParse(e) ==
    IF ~IsBlank(e.tail) THEN ExpatError
    ELSE PushData(None, e.name, ElemValue(e))

-----------------------------------------------------------------------------
(* parse_pubmed_xml: the probe for an empty stream (lines 62-69)           *)
(* stream: size      0, 1, or 2 for "two bytes or more"                    *)
(*         seekable  "yes" | "no" | "raise": what seekable() does          *)
(*         tellOk, readOk, seekOk: whether tell(), read(1), seek(pos)      *)
(*                   return normally when the probe calls them             *)
(*         leadWs    whether the first byte is whitespace before the       *)
(*                   document element                                      *)

\* [ret: the generator returned at line 66, pos: bytes the probe consumed]
ProbeOutcome(st) ==
    IF st.seekable # "yes" THEN [ret |-> FALSE, pos |-> 0]      \* not seekable, or except: pass
    ELSE IF ~st.tellOk THEN [ret |-> FALSE, pos |-> 0]          \* tell() raised
    ELSE IF ~st.readOk THEN [ret |-> FALSE, pos |-> 0]          \* read(1) raised
    ELSE IF st.size = 0 THEN [ret |-> TRUE, pos |-> 0]          \* not read(1): return
    ELSE IF ~st.seekOk THEN [ret |-> FALSE, pos |-> 1]          \* seek(pos) raised
    ELSE [ret |-> FALSE, pos |-> 0]

-----------------------------------------------------------------------------
(* etree.iterparse(file_stream, events=("end",))                           *)
(* input: doc   the document the stream holds                              *)
(*        err   "none" for a well-formed document, else the kind of the    *)
(*              parser's failure: "syntax" or "limit"                      *)
(*        cut   how many closing tags are reached before the failure       *)

\* bytes left for the parser
Fed(st, p) == st.size - p

\* the parser sees the document as written: nothing was consumed, or only a
\* leading whitespace byte
SeesDocument(st, p) == st.size = 2 /\ (p = 0 \/ st.leadWs)

\* a parser that delivers an "end" event for every element of the document,
\* closed or not
EventsOfEveryElement(st, in, p) ==
    IF SeesDocument(st, p) THEN PostOrder(in.doc, 1) ELSE <<>>

\* the "end" events iterparse delivers, in order
Events(st, in, p) ==
    IF SeesDocument(st, p) THEN SubSeq(PostOrder(in.doc, 1), 1, in.cut) ELSE <<>>

\* how the iteration ends: "" for StopIteration, else the message of the
\* XMLSyntaxError
ParserEnd(st, in, p) ==
    IF Fed(st, p) = 0 THEN "no element found"
    ELSE IF ~SeesDocument(st, p) THEN "Start tag expected"
    ELSE IF in.err = "syntax" THEN "Premature end of data"
    ELSE IF in.err = "limit" THEN "Resource limit exceeded"
    ELSE ""

\* a handler that re-raises every XMLSyntaxError
SwallowNothing(msg) == FALSE

\* a handler that returns on every XMLSyntaxError
SwallowEvery(msg) == TRUE

\* "no element found" in str(e)
Swallowed(msg) == msg = "no element found"

-----------------------------------------------------------------------------
(* the body of the loop *)

IsRecordRoot(tag_name) == tag_name \in RecordRootTags

\* a loop body without step 5
InjectNothing(doc, tag_name) == doc

\* step 5: doc["_record_type"] = ...
InjectRecordType(doc, tag_name) ==
    IF tag_name = "PubmedArticle" THEN DictSet(doc, "_record_type", Str(<<"citation">>))
    ELSE IF tag_name = "DeleteCitation" THEN DictSet(doc, "_record_type", Str(<<"delete">>))
    ELSE doc

\* steps 1 and 2: the tree after the in-place passes
Prepared(t, elem) == StripNamespaces(FlattenMixedContent(t, elem, FlattenTags), elem)

\* steps 3 and 4 on the prepared tree
Parsed(t, elem, withTail) == XmlToDictParse(EtreeToString(t, elem, withTail))

\* elem.clear(): children, attributes, text and tail are dropped; a tail
\* that had not been parsed yet is not there to drop
Clear(t, elem, sawTail) ==
    LET upd(i) ==
            IF i = elem
            THEN [t[i] EXCEPT !.attrs = <<>>, !.text = <<>>,
                              !.tail = IF sawTail THEN <<>> ELSE @]
            ELSE IF t[i].parent = elem THEN [t[i] EXCEPT !.att = FALSE]
            ELSE t[i]
    IN  MapNodes([i \in 1..Len(t) |-> upd(i)], Len(t), <<>>)

\* a release step that only clears the element
KeepPreceding(t, elem) == t

\* while elem.getprevious() is not None: del elem.getparent()[0]
DeletePreceding(t, elem) ==
    LET upd(i) ==
            IF i < elem /\ t[i].parent = t[elem].parent /\ t[i].parent # 0
            THEN [t[i] EXCEPT !.att = FALSE] ELSE t[i]
    IN  MapNodes([i \in 1..Len(t) |-> upd(i)], Len(t), <<>>)

\* step 6
ReleaseElement(t, elem, sawTail) == DeletePreceding(Clear(t, elem, sawTail), elem)

NoElem == [node |-> 0, sawTail |-> TRUE]

-----------------------------------------------------------------------------
(* Actions *)

\* the generator is started: lines 62-73
Probe ==
    /\ pc = "start"
    /\ pos' = ProbeOutcome(stream).pos
    /\ pc' = IF ProbeOutcome(stream).ret THEN "done" ELSE "loop"
    /\ UNCHANGED <<stream, input, tree, evIdx, cur, records, origin, releases, error, caller>>

HasEvent == pc = "loop" /\ evIdx < Len(Events(stream, input, pos))
NextElem == Events(stream, input, pos)[evIdx + 1]

\* an "end" event of an element that is no record root: nothing is done
SkipElement ==
    /\ HasEvent
    /\ ~IsRecordRoot(LocalName(tree, NextElem))
    /\ evIdx' = evIdx + 1
    /\ UNCHANGED <<stream, input, pos, tree, cur, pc, records, origin, releases, error, caller>>

\* an "end" event of a record root: lines 78-100, up to the yield
HandleRecordRoot ==
    /\ HasEvent
    /\ IsRecordRoot(LocalName(tree, NextElem))
    /\ \E withTail \in (IF tree[NextElem].tail = <<>> THEN {TRUE} ELSE BOOLEAN) :
         LET elem == NextElem
             t2   == Prepared(tree, elem)
             doc  == Parsed(t2, elem, withTail)
         IN  /\ tree' = t2
             /\ evIdx' = evIdx + 1
             /\ IF doc = ExpatError
                THEN /\ pc' = "raised"
                     /\ error' = "ExpatError"
                     /\ UNCHANGED <<cur, records, origin>>
                ELSE /\ pc' = "yielded"
                     /\ records' = Append(records, InjectRecordType(doc, LocalName(tree, elem)))
                     /\ origin' = Append(origin, elem)
                     /\ cur' = [node |-> elem, sawTail |-> withTail]
                     /\ UNCHANGED error
    /\ UNCHANGED <<stream, input, pos, releases, caller>>

\* records that are views of the tree: each is what its element holds now
ViewsOfTree(recs, org, t) ==
    LET view(i) ==
            LET doc == Parsed(t, org[i], FALSE)
            IN  IF doc = ExpatError THEN recs[i] ELSE InjectRecordType(doc, t[org[i]].tag)
    IN  MapNodes([i \in 1..Len(recs) |-> view(i)], Len(recs), <<>>)

\* the yielded documents after a change of the tree: xmltodict.parse built
\* each one from the string xml_str (lines 89-92), so none of them shares
\* anything with the tree
YieldedDocs(recs, org, t) == recs

\* the consumer asks for the next record: lines 103-105
Release ==
    /\ pc = "yielded"
    /\ tree' = ReleaseElement(tree, cur.node, cur.sawTail)
    /\ records' = YieldedDocs(records, origin, tree')
    /\ releases' = releases + 1
    /\ cur' = NoElem
    /\ pc' = "loop"
    /\ UNCHANGED <<stream, input, pos, evIdx, origin, error, caller>>

\* the consumer drops the generator while it is suspended at the yield
Close ==
    /\ pc = "yielded"
    /\ pc' = "closed"
    /\ UNCHANGED <<stream, input, pos, tree, evIdx, cur, records, origin, releases, error, caller>>

Exhausted == pc = "loop" /\ evIdx = Len(Events(stream, input, pos))

\* iterparse ends normally
EndOfDocument ==
    /\ Exhausted
    /\ ParserEnd(stream, input, pos) = ""
    /\ pc' = "done"
    /\ UNCHANGED <<stream, input, pos, tree, evIdx, cur, records, origin, releases, error, caller>>

\* iterparse raises XMLSyntaxError: lines 107-110
SyntaxError ==
    /\ Exhausted
    /\ ParserEnd(stream, input, pos) # ""
    /\ IF Swallowed(ParserEnd(stream, input, pos))
       THEN pc' = "done" /\ UNCHANGED error
       ELSE pc' = "raised" /\ error' = "XMLSyntaxError"
    /\ UNCHANGED <<stream, input, pos, tree, evIdx, cur, records, origin, releases, caller>>

Next ==
    \/ Probe
    \/ SkipElement
    \/ HandleRecordRoot
    \/ Release
    \/ Close
    \/ EndOfDocument
    \/ SyntaxError

-----------------------------------------------------------------------------
(* Inputs *)

Elem(parent, tag) ==
    [parent |-> parent, ns |-> "", tag |-> tag, attrs |-> <<>>, decl |-> {},
     text |-> <<>>, tail |-> <<>>, att |-> TRUE]

RECURSIVE OnPath(_, _, _)
\* a is n or an ancestor of n under the parent vector p
OnPath(p, a, n) == a = n \/ (p[n] # 0 /\ OnPath(p, a, p[n]))

\* the parent vectors of the ordered trees with n nodes, numbered in
\* document order
ParentVecs(n) ==
    { p \in [1..n -> 0..(n - 1)] :
        /\ p[1] = 0
        /\ \A i \in 2..n : p[i] # 0 /\ p[i] < i /\ OnPath(p, p[i], i - 1) }

IsLeaf(p, i) == \A j \in DOMAIN p : p[j] # i

RECURSIVE Pieces(_)
\* the sequences whose i-th entry is drawn from the i-th set of sets
Pieces(sets) ==
    IF sets = <<>> THEN { <<>> }
    ELSE { <<x>> \o f : x \in Head(sets), f \in Pieces(Tail(sets)) }

\* the ways to name n elements: a PubmedArticleSet, then tags drawn from tags
TagsOver(tags, n) == Pieces([i \in 1..n |-> IF i = 1 THEN {"PubmedArticleSet"} ELSE tags])

\* the document of shape p with the tags tg; every leaf holds the text "a"
TreeDoc(p, tg) ==
    LET node(i) == [Elem(p[i], tg[i]) EXCEPT !.text = IF IsLeaf(p, i) THEN <<"a">> ELSE <<>>]
    IN  MapNodes([i \in 1..Len(tg) |-> node(i)], Len(tg), <<>>)

WellFormed(d) == [doc |-> d, err |-> "none", cut |-> Len(d)]
Malformed(d, kind, k) == [doc |-> d, err |-> kind, cut |-> k]

\* a seekable stream whose methods all work
PlainStream ==
    [size |-> 2, seekable |-> "yes", tellOk |-> TRUE, readOk |-> TRUE,
     seekOk |-> TRUE, leadWs |-> FALSE]

EmptyDoc == <<Elem(0, "PubmedArticleSet")>>

\* <PubmedArticleSet><MedlineCitation>x</PubmedArticleSet>, when it fails
\* at the mismatched closing tag
UnclosedCitation ==
    <<Elem(0, "PubmedArticleSet"), [Elem(1, "MedlineCitation") EXCEPT !.text = <<"x">>]>>

\* run is not called
NoRun ==
    /\ env = <<>>
    /\ mpc = "none"
    /\ sql = <<>>
    /\ calls = <<>>
    /\ exitCode = 0

\* run_deduplication_sweep is not called
NoSweep ==
    /\ baseline = <<>>
    /\ updates = <<>>
    /\ dpc = "none"

\* the merge is not run
NoMerge ==
    /\ table = <<>>
    /\ batch = <<>>
    /\ watermark = 0
    /\ runs = 0

\* parse_pubmed_xml is called on its own
NoCaller ==
    /\ files = <<>>
    /\ fileIdx = 0
    /\ items = <<>>
    /\ ppc = "none"
    /\ perr = ""
    /\ now = 0
    /\ NoRun /\ NoSweep /\ NoMerge

InitCase(c) ==
    /\ stream = c.stream
    /\ input = c.input
    /\ pos = 0
    /\ tree = c.input.doc
    /\ evIdx = 0
    /\ cur = NoElem
    /\ pc = "start"
    /\ records = <<>>
    /\ origin = <<>>
    /\ releases = 0
    /\ error = ""
    /\ NoCaller

\* a plain stream holding the well-formed document d
InitDoc(d) == InitCase([stream |-> PlainStream, input |-> WellFormed(d)])

\* a few inputs that end in each way the generator can end
EdgeCases ==
    { [stream |-> [PlainStream EXCEPT !.size = 0], input |-> WellFormed(EmptyDoc)],
      [stream |-> PlainStream, input |-> Malformed(EmptyDoc, "syntax", 0)],
      [stream |-> PlainStream, input |-> Malformed(UnclosedCitation, "syntax", 0)] }

InitEdge == \E c \in EdgeCases : InitCase(c)

\* every document of n elements over the tags
InitTreeDocs(tags, n) ==
    \E p \in ParentVecs(n) : \E tg \in TagsOver(tags, n) : InitDoc(TreeDoc(p, tg))

TreeTags == {"PubmedArticle", "DeleteCitation", "MedlineCitation", "PMID", "Title"}

(* documents with text after the closing tags *)

TailTags == {"DeleteCitation", "Title"}
TailTexts == {<<>>, <<" ">>, <<"j">>}

\* the tails of n elements; the document element has none
TailsOver(n) == Pieces([i \in 1..n |-> IF i = 1 THEN { <<>> } ELSE TailTexts])

WithTails(d, tl) == MapNodes([i \in 1..Len(d) |-> [d[i] EXCEPT !.tail = tl[i]]], Len(d), <<>>)

InitTailDocs(n) ==
    \E p \in ParentVecs(n) : \E tg \in TagsOver(TailTags, n) : \E tl \in TailsOver(n) :
        InitDoc(WithTails(TreeDoc(p, tg), tl))

InitTree ==
    \/ \E n \in 1..MaxNodes : InitTreeDocs(TreeTags, n)
    \/ \E n \in 2..(MaxNodes - 1) : InitTailDocs(n)
    \/ InitEdge

\* well-formed documents of every shape, read from a plain stream
SpecTree == InitTree /\ [][Next]_vars

(* streams of every behaviour, holding nothing, one byte, or a document
   that is well-formed or fails after any number of closing tags *)

Streams(size) ==
    { st \in
        { [size |-> size, seekable |-> sk, tellOk |-> tl, readOk |-> rd, seekOk |-> se,
           leadWs |-> ws] :
            sk \in {"yes", "no", "raise"}, tl \in BOOLEAN, rd \in BOOLEAN, se \in BOOLEAN,
            ws \in (IF size = 2 THEN BOOLEAN ELSE {FALSE}) } :
        \* tell, read and seek are called on a seekable stream only
        st.seekable # "yes" => (st.tellOk /\ st.readOk /\ st.seekOk) }

\* d as written, or failing after k closing tags
StreamInputs(d) ==
    { WellFormed(d) } \cup
    { Malformed(d, kind, k) : kind \in {"syntax", "limit"}, k \in 0..Len(d) }

Init ==
    \/ \E st \in Streams(0) \cup Streams(1) :
          InitCase([stream |-> st, input |-> WellFormed(EmptyDoc)])
    \/ InitEdge
    \/ \E n \in 1..(MaxNodes - 1) : \E p \in ParentVecs(n) : \E tg \in TagsOver(TailTags, n) :
          \E st \in Streams(2) : \E in \in StreamInputs(TreeDoc(p, tg)) :
              InitCase([stream |-> st, input |-> in])

\* every stream behaviour, every way a document can fail
Spec == Init /\ [][Next]_vars

(* documents with namespaces: PubmedArticleSet > root > child, with
   declarations on the document element or on the root, prefixed or
   default-namespaced elements, and plain or prefixed attributes *)

NsRootTags == {"PubmedArticle", "DeleteCitation", "MedlineCitation"}
NsChildTags == {"PMID", "Title"}
NsAttrs ==
    { <<>>,
      <<[prefix |-> "", name |-> "Label", val |-> <<"v">>]>>,
      <<[prefix |-> "ns", name |-> "Label", val |-> <<"v">>]>>,
      <<[prefix |-> "xml", name |-> "lang", val |-> <<"v">>]>> }

RECURSIVE InScope(_, _, _)
\* a declaration of p is in scope at n
InScope(d, n, p) == n # 0 /\ (p \in d[n].decl \/ InScope(d, d[n].parent, p))

\* what a namespace-aware parser accepts and how it resolves names: a used
\* prefix is declared, and an unprefixed element is in the default
\* namespace exactly when one is in scope
NsConsistent(d) ==
    \A n \in 1..Len(d) :
        /\ d[n].ns = "ns" => InScope(d, n, "ns")
        /\ d[n].ns = "dflt" => InScope(d, n, "dflt")
        /\ d[n].ns = "" => ~InScope(d, n, "dflt")
        /\ \A a \in Range(d[n].attrs) : a.prefix = "ns" => InScope(d, n, "ns")

\* the namespace, declarations and attributes an element can be given
NsMarks ==
    { [ns |-> n, decl |-> d, attrs |-> a] :
        n \in {"", "ns", "dflt"}, d \in SUBSET {"ns", "dflt"}, a \in NsAttrs }

NsElem(parent, tag, m) ==
    [Elem(parent, tag) EXCEPT !.ns = m.ns, !.decl = m.decl, !.attrs = m.attrs]

InitNs ==
    \/ \E m1 \in { m \in NsMarks : m.attrs = <<>> } : \E m2 \in NsMarks :
       \E m3 \in { m \in NsMarks : m.decl = {} } :
       \E t2 \in NsRootTags : \E t3 \in NsChildTags :
          LET d == << NsElem(0, "PubmedArticleSet", m1), NsElem(1, t2, m2),
                      [NsElem(2, t3, m3) EXCEPT !.text = <<"a">>] >>
          IN  NsConsistent(d) /\ InitDoc(d)
    \/ \E m1 \in { m \in NsMarks : m.attrs = <<>> } : \E m2 \in NsMarks :
       \E t2 \in NsRootTags :
          LET d == << NsElem(0, "PubmedArticleSet", m1), NsElem(1, t2, m2) >>
          IN  NsConsistent(d) /\ InitDoc(d)
    \/ InitEdge

\* namespaced documents
SpecNs == InitNs /\ [][Next]_vars

(* documents with mixed content: PubmedArticleSet > PubmedArticle > P, where P
   holds up to MaxInner elements in any arrangement; a text is empty or a
   letter of its own (P's may be blank-led), a tail is empty, a letter of its
   own, or a blank *)

MaxInner == 2

ProseKinds ==
    { [tag |-> "ArticleTitle", attrs |-> <<>>],
      [tag |-> "AbstractText", attrs |-> <<[prefix |-> "", name |-> "Label", val |-> <<"v">>]>>],
      [tag |-> "VernacularTitle", attrs |-> <<>>],
      [tag |-> "Affiliation", attrs |-> <<[prefix |-> "", name |-> "Label", val |-> <<"v">>]>>],
      [tag |-> "Title", attrs |-> <<>>],
      [tag |-> "Title", attrs |-> <<[prefix |-> "", name |-> "b", val |-> <<"v">>]>>] }
Letters == <<"a", "b", "c", "d", "e", "f", "g", "h", "i", "j">>
TextsOf(i) ==
    IF i = 1 THEN { <<>>, <<" ", "a">>, <<" ">> } ELSE { <<>>, <<Letters[2 * i - 1]>> }
TailsOf(i) == IF i = 1 THEN { <<>> } ELSE { <<>>, <<Letters[2 * i]>>, <<" ">> }

ProseDoc(p, kind, tx, tl) ==
    LET node(i) ==
            [Elem(p[i] + 2, IF i = 1 THEN kind.tag ELSE "b")
                EXCEPT !.text = tx[i], !.tail = tl[i],
                       !.attrs = IF i = 1 THEN kind.attrs ELSE <<>>]
    IN  << Elem(0, "PubmedArticleSet"), Elem(1, "PubmedArticle") >> \o
        MapNodes([i \in 1..Len(tx) |-> node(i)], Len(tx), <<>>)

(* documents in which record roots and ArticleTitle elements nest in one
   another *)

NestTags == {"PubmedArticle", "DeleteCitation", "ArticleTitle"}

InitText ==
    \/ \E k \in 1..(MaxInner + 1) : \E p \in ParentVecs(k) : \E kind \in ProseKinds :
       \E tx \in Pieces([i \in 1..k |-> TextsOf(i)]) :
       \E tl \in Pieces([i \in 1..k |-> TailsOf(i)]) :
          InitDoc(ProseDoc(p, kind, tx, tl))
    \/ \E n \in 1..MaxNodes : InitTreeDocs(NestTags, n)
    \/ InitEdge

\* documents with mixed content, and documents of nested roots and titles
SpecText == InitText /\ [][Next]_vars

-----------------------------------------------------------------------------
(* Properties *)

\* the value stored under key in the dict d
Lookup(d, key) == d.items[Get(d, key)].val

\* the tag the source element of records[i] was written with
OriginTag(i) == input.doc[origin[i]].tag

RECURSIVE ListsForced(_)
\* every FORCE_LIST_KEYS key inside v, at any depth, holds a list
ListsForced(v) ==
    IF v.k = "dict"
    THEN \A i \in 1..Len(v.items) :
            /\ v.items[i].key \in FORCE_LIST_KEYS => v.items[i].val.k = "list"
            /\ ListsForced(v.items[i].val)
    ELSE IF v.k = "list"
    THEN \A i \in 1..Len(v.items) : ListsForced(v.items[i])
    ELSE TRUE

RecordRootsInOrder ==
    SelectSeq(Iota(Len(input.doc)), LAMBDA n : input.doc[n].tag \in RecordRootTags)

\* C2: for a well-formed document the generator raises nothing and, once
\* drained, has yielded exactly one record per record-root element, in the
\* order the elements appear in the document, and nothing for any other
\* element; with no record root it yields nothing.
C2_OneRecordPerRootInDocumentOrder ==
    (stream = PlainStream /\ input.err = "none") =>
        /\ pc # "raised"
        /\ pc = "done" => origin = RecordRootsInOrder
        /\ pc = "done" => Len(records) = Len(RecordRootsInOrder)

\* the values of _record_type in the records yielded so far
RecordTypes == [i \in 1..Len(records) |-> Lookup(records[i], "_record_type")]

\* the tags of the children of the document element, in order
TopLevelTags ==
    LET kids == SelectSeq(Iota(Len(input.doc)), LAMBDA n : input.doc[n].parent = 1)
    IN  [i \in 1..Len(kids) |-> input.doc[kids[i]].tag]

\* C3: a MedlineCitation that is a direct child of PubmedArticleSet is
\* yielded as one record whose top-level key is MedlineCitation and whose
\* _record_type is "citation"; the children DeleteCitation, MedlineCitation,
\* DeleteCitation yield three records typed delete, citation, delete.
C3_BareMedlineCitationIsARecord ==
    (stream = PlainStream /\ input.err = "none" /\ pc = "done") =>
        /\ \A n \in 2..Len(input.doc) :
              (input.doc[n].parent = 1 /\ input.doc[n].tag = "MedlineCitation") =>
                  \E i \in 1..Len(records) :
                      /\ origin[i] = n
                      /\ "MedlineCitation" \in Keys(records[i])
                      /\ Lookup(records[i], "_record_type") = Str(<<"citation">>)
        /\ TopLevelTags = <<"DeleteCitation", "MedlineCitation", "DeleteCitation">> =>
              RecordTypes = <<Str(<<"delete">>), Str(<<"citation">>), Str(<<"delete">>)>>

IllFormed == input.err # "none" \/ stream.size = 1

\* C5: every well-formedness violation in a non-empty input makes the
\* generator raise the parser's error; a parse failure is turned into a
\* normal end of the sequence only for a zero-length stream.
C5_OnlyEmptyInputIsSwallowed ==
    /\ (stream.size > 0 /\ IllFormed) => pc # "done"
    /\ (pc = "done" /\ ParserEnd(stream, input, pos) # "") => stream.size = 0

OnlyRecordRoots ==
    \A n \in 2..Len(input.doc) :
        input.doc[n].parent = 1 => input.doc[n].tag \in RecordRootTags

\* the children of the document element whose closing tag has been reached
\* and that are still linked to it
Retained ==
    { n \in 2..Len(tree) :
        /\ tree[n].parent = 1
        /\ tree[n].att
        /\ \E k \in 1..evIdx : Events(stream, input, pos)[k] = n }

\* C7: while a document of sibling record roots is iterated, the root-level
\* elements the parser still holds number at most two, however many record
\* roots there are, and the release step has run once for every record the
\* consumer has taken: once per emitted record when the sequence is drained.
C7_BoundedRetentionOneReleasePerRecord ==
    /\ OnlyRecordRoots => Cardinality(Retained) <= 2
    /\ Len(records) = releases + (IF pc \in {"yielded", "closed"} THEN 1 ELSE 0)
    /\ pc = "done" => releases = Len(records)

\* a document of three sibling record roots has been drained
C7_Witness ==
    /\ OnlyRecordRoots
    /\ Cardinality({ n \in 2..Len(input.doc) : input.doc[n].parent = 1 }) = 3
    /\ pc = "done"
    /\ releases = 3

RECURSIVE AllKeys(_)
\* the keys of v at every depth
AllKeys(v) ==
    IF v.k = "dict"
    THEN UNION { {v.items[i].key} \cup AllKeys(v.items[i].val) : i \in 1..Len(v.items) }
    ELSE IF v.k = "list"
    THEN UNION { AllKeys(v.items[i]) : i \in 1..Len(v.items) }
    ELSE {}

\* the document with every prefix, default namespace and declaration removed
Unprefixed(d) ==
    [i \in 1..Len(d) |->
        [d[i] EXCEPT !.ns = "", !.decl = {},
                     !.attrs = [k \in 1..Len(d[i].attrs) |->
                                  [d[i].attrs[k] EXCEPT !.prefix =
                                      IF d[i].attrs[k].prefix = "ns" THEN ""
                                      ELSE d[i].attrs[k].prefix]]]]

\* the record the loop body makes of element n of the unprefixed document
UnprefixedRecord(n) ==
    LET u == Unprefixed(input.doc)
    IN  InjectRecordType(Parsed(Prepared(u, n), n, FALSE), u[n].tag)

\* C8: a record-root element carrying a namespace prefix is recognised as a
\* record root, yields a record whose keys are those produced for the same
\* document without prefixes, and a prefixed citation root is typed
\* "citation".
C8_PrefixedRootParsesLikeUnprefixed ==
    pc = "done" =>
        \A n \in 2..Len(input.doc) :
            (input.doc[n].parent = 1 /\ input.doc[n].ns = "ns") =>
                \E i \in 1..Len(records) :
                    /\ origin[i] = n
                    /\ AllKeys(records[i]) = AllKeys(UnprefixedRecord(n))
                    /\ input.doc[n].tag # "DeleteCitation" =>
                           Lookup(records[i], "_record_type") = Str(<<"citation">>)

\* the keys that hold a namespace prefix or name a namespace declaration
NamespacedKeys ==
    {"@xmlns"}
    \cup { "@xmlns:" \o p : p \in {"ns"} }
    \cup { "@" \o p \o ":" \o a : p \in {"ns", "xml"}, a \in {"Label", "lang"} }
    \cup { p \o ":" \o t : p \in {"ns"}, t \in NsRootTags \cup NsChildTags }

\* C9: no key anywhere in a yielded record, element key or "@" attribute
\* key, contains a namespace prefix or names an xmlns declaration, for any
\* combination of prefixed or default-namespaced elements and attributes.
C9_NoNamespaceInAnyKey ==
    \A i \in 1..Len(records) : AllKeys(records[i]) \cap NamespacedKeys = {}

ProseNames == {"ArticleTitle", "AbstractText", "VernacularTitle", "Affiliation"}

RECURSIVE InnerText(_, _)
\* all character data between the tags of n, in document order
InnerText(t, n) ==
    LET kids == Children(t, n)
    IN  t[n].text \o
        Concat([i \in 1..Len(kids) |-> InnerText(t, kids[i]) \o t[kids[i]].tail])

\* the descendants of elem named in ProseNames that lie in no other such
\* descendant: the elements that are emitted under their own key
OutermostProse(t, elem) ==
    { n \in 1..Len(t) :
        /\ IsUnder(t, elem, n)
        /\ t[n].tag \in ProseNames
        /\ \A a \in Range(Ancestors(t, n)) : IsUnder(t, elem, a) => t[a].tag \notin ProseNames }

\* what a record holds for its root element
RootValue(rec, tag) ==
    LET v == Lookup(rec, tag) IN IF IsList(v) THEN v.items[1] ELSE v

RECURSIVE Emitted(_, _, _, _)
\* what a record made of elem holds for the descendant n: the path of tags
\* from elem to n is followed, an element among same-named siblings being
\* found at its rank in their list
Emitted(t, elem, n, rootVal) ==
    IF n = elem THEN rootVal
    ELSE LET pv   == Emitted(t, elem, t[n].parent, rootVal)
             sibs == SelectSeq(Children(t, t[n].parent), LAMBDA m : t[m].tag = t[n].tag)
             rank == CHOOSE r \in 1..Len(sibs) : sibs[r] = n
             v    == Lookup(pv, t[n].tag)
         IN  IF IsList(v) THEN v.items[rank] ELSE v

\* v is what an element with these attributes and this text, and nothing
\* else, is emitted as
ProseValueIs(v, attrs, txt) ==
    IF attrs = <<>>
    THEN v = (IF txt = <<>> THEN None ELSE Str(txt))
    ELSE /\ IsDict(v)
         /\ Keys(v) = { "@" \o attrs[k].name : k \in 1..Len(attrs) }
                      \cup (IF txt = <<>> THEN {} ELSE {"#text"})
         /\ \A k \in 1..Len(attrs) : Lookup(v, "@" \o attrs[k].name) = Str(attrs[k].val)
         /\ txt # <<>> => Lookup(v, "#text") = Str(txt)

\* the record being yielded in this step, and the element it is made of
NewRecord == records'[Len(records')]
NewOrigin == origin'[Len(origin')]

\* C10 as stated: for every descendant of a record root named ArticleTitle,
\* AbstractText, VernacularTitle or Affiliation, the emitted text is the
\* concatenation, in document order, of all text inside the element, no
\* child key survives, and the attributes are emitted as "@" keys.
C10_FullTextEmitted ==
    [][Len(records') = Len(records) + 1 =>
         \A n \in OutermostProse(tree, NewOrigin) :
             ProseValueIs(Emitted(tree, NewOrigin, n,
                                  RootValue(NewRecord, tree[NewOrigin].tag)),
                          tree[n].attrs, InnerText(input.doc, n))]_vars

\* C10, amended: the emitted text is the concatenation, in document order,
\* of all text the element holds when its record root is processed, with
\* leading and trailing whitespace removed, and no text at all when nothing
\* else remains; no child key survives, and the attributes are emitted as
\* "@" keys.
C10_TrimmedTextEmitted ==
    [][Len(records') = Len(records) + 1 =>
         \A n \in OutermostProse(tree, NewOrigin) :
             ProseValueIs(Emitted(tree, NewOrigin, n,
                                  RootValue(NewRecord, tree[NewOrigin].tag)),
                          tree[n].attrs, Strip(InnerText(tree, n)))]_vars

\* an AbstractText with an attribute, blank-led text and two nested inner
\* elements has been emitted as its attribute and its trimmed, joined text
C10_Witness ==
    /\ Len(input.doc) = 5
    /\ input.doc[3].tag = "AbstractText"
    /\ input.doc[3].text = <<" ", "a">>
    /\ input.doc[5].parent = 4
    /\ Len(records) = 1
    /\ LET v == Lookup(RootValue(records[1], "PubmedArticle"), "AbstractText")
       IN  /\ IsDict(v)
           /\ Keys(v) = {"@Label", "#text"}
           /\ Lookup(v, "#text") = Str(<<"a", "c", "e", "f", "d">>)

\* the record the generator is suspended on, and what it holds for the
\* element n of the tree that was serialised
LastRecord == records[Len(records)]
YieldedValue(n) ==
    Emitted(tree, cur.node, n, RootValue(LastRecord, tree[cur.node].tag))

\* the same-named children of p, in document order
Siblings(p, tg) == SelectSeq(Children(tree, p), LAMBDA m : tree[m].tag = tg)

\* the character data of n itself: its text and the tails of its children
OwnData(n) ==
    LET kids == Children(tree, n)
    IN  tree[n].text \o Concat([i \in 1..Len(kids) |-> tree[kids[i]].tail])

\* the text a value carries for its own element
OwnText(v) ==
    IF v.k = "str" THEN v.s
    ELSE IF v.k = "dict" /\ "#text" \in Keys(v) THEN Lookup(v, "#text").s
    ELSE <<>>

\* C11: in the element a record is made of, for a child tag name that is not
\* in FORCE_LIST_KEYS, exactly one sibling with that name yields a scalar or
\* a mapping, never a list, and two or more siblings with that name yield a
\* list with one entry per sibling, in document order.
C11_NonForcedSiblings ==
    pc = "yielded" =>
        \A p \in Subtree(tree, cur.node) :
            \A tg \in { tree[c].tag : c \in Range(Children(tree, p)) } \ FORCE_LIST_KEYS :
                LET sibs == Siblings(p, tg)
                    v    == Lookup(YieldedValue(p), tg)
                IN  IF Len(sibs) = 1
                    THEN v.k \in {"none", "str", "dict"}
                    ELSE /\ v.k = "list"
                         /\ Len(v.items) = Len(sibs)
                         /\ \A r \in 1..Len(sibs) :
                               /\ v.items[r].k \in {"none", "str", "dict"}
                               /\ OwnText(v.items[r]) = Strip(OwnData(sibs[r]))

\* a Title, alone of its name, is emitted as a mapping in which its two b
\* children, with texts c and e, form the list [c, e]
C11_Witness ==
    /\ pc = "yielded"
    /\ Len(tree) = 5
    /\ tree[3].tag = "Title" /\ tree[3].attrs = <<>>
    /\ tree[4].parent = 3 /\ tree[5].parent = 3
    /\ LET v == Lookup(RootValue(LastRecord, "PubmedArticle"), "Title")
       IN  /\ IsDict(v)
           /\ Lookup(v, "b") = List(<<Str(<<"c">>), Str(<<"e">>)>>)

\* the key an attribute is emitted under
AttrKey(a) == "@" \o (IF a.prefix = "" THEN a.name ELSE a.prefix \o ":" \o a.name)

\* C12: in the element a record is made of, an element with one or more
\* attributes is emitted as a mapping holding one "@"-prefixed key per
\* attribute, with the attribute's value, plus "#text" for its text; an
\* attribute and a child element that share a name yield the two distinct
\* keys "@Name" and "Name", and neither overwrites the other.
C12_AttributesAreAtKeys ==
    pc = "yielded" =>
        \A n \in Subtree(tree, cur.node) :
            tree[n].attrs # <<>> =>
                LET v   == YieldedValue(n)
                    txt == Strip(OwnData(n))
                IN  /\ IsDict(v)
                    /\ \A a \in Range(tree[n].attrs) :
                          /\ AttrKey(a) \in Keys(v)
                          /\ Lookup(v, AttrKey(a)) = Str(a.val)
                    /\ txt # <<>> => ("#text" \in Keys(v) /\ Lookup(v, "#text") = Str(txt))
                    /\ \A c \in Range(Children(tree, n)) :
                          /\ tree[c].tag \in Keys(v)
                          /\ LET x     == Lookup(v, tree[c].tag)
                                 first == IF IsList(x) THEN x.items[1] ELSE x
                             IN  OwnText(first) = Strip(OwnData(Siblings(n, tree[c].tag)[1]))

\* a Title with the attribute b, the text a and a child b holding c is
\* emitted with the keys @b, b and #text, each with its own value
C12_Witness ==
    /\ pc = "yielded"
    /\ Len(tree) = 4
    /\ tree[3].tag = "Title" /\ tree[3].attrs # <<>> /\ tree[4].tag = "b"
    /\ LET v == Lookup(RootValue(LastRecord, "PubmedArticle"), "Title")
       IN  /\ IsDict(v)
           /\ Keys(v) = {"@b", "b", "#text"}
           /\ Lookup(v, "@b") = Str(<<"v">>)
           /\ Lookup(v, "b") = Str(<<"c">>)
           /\ Lookup(v, "#text") = Str(<<"a">>)

\* an element of the record being yielded that has no text and no children
IsEmptyElement(n) == tree[n].text = <<>> /\ Children(tree, n) = <<>>

\* C13: an element with no text and no children is emitted as null when it
\* has no attributes, and as a mapping that contains only its "@" attribute
\* keys, with no "#text" key, when it has attributes.
C13_EmptyElements ==
    pc = "yielded" =>
        \A n \in Subtree(tree, cur.node) :
            IsEmptyElement(n) =>
                LET v == YieldedValue(n)
                IN  IF tree[n].attrs = <<>>
                    THEN v = None
                    ELSE /\ IsDict(v)
                         /\ Keys(v) = { AttrKey(a) : a \in Range(tree[n].attrs) }
                         /\ \A a \in Range(tree[n].attrs) :
                               Lookup(v, AttrKey(a)) = Str(a.val)

\* the stream holds a document that breaches a parser limit (entity
\* expansion, or the length of one text node) after input.cut closing tags
LimitBreached == input.err = "limit" /\ stream.size = 2

\* the elements that had closed when the parser failed
ClosedBeforeFailure == Range(SubSeq(PostOrder(input.doc, 1), 1, input.cut))

\* the record the loop body makes of element n of the document d as written
RecordOf(d, n) == InjectRecordType(Parsed(Prepared(d, n), n, FALSE), d[n].tag)
RecordAsWritten(n) == RecordOf(input.doc, n)

\* C14: an input that breaches the entity-expansion or the text-length
\* ceiling makes the generator raise the parser's error: it never ends
\* normally, and every record it yielded before the failure is made of an
\* element that had closed by then and holds that element's text as written.
C14_LimitBreachRaises ==
    LimitBreached =>
        /\ pc # "done"
        /\ pc = "raised" => error = "XMLSyntaxError"
        /\ Exhausted => ~Swallowed(ParserEnd(stream, input, pos))
        /\ \A i \in 1..Len(records) :
              /\ origin[i] \in ClosedBeforeFailure
              /\ (\A m \in Subtree(input.doc, origin[i]) \ {origin[i]} :
                     ~IsRecordRoot(input.doc[m].tag))
                 => records[i] = RecordAsWritten(origin[i])

\* a document whose second record root breaches a limit: the first root
\* was yielded whole, then the parser's error is raised
C14_Witness ==
    /\ LimitBreached
    /\ pc = "raised" /\ error = "XMLSyntaxError"
    /\ Len(records) = 1 /\ origin[1] = 2
    /\ Len(input.doc) = 3 /\ input.doc[3].parent = 1 /\ IsRecordRoot(input.doc[3].tag)
    /\ input.cut = 1

-----------------------------------------------------------------------------
(* pubmed_xml_parser (pipelines/pubmed_pipeline.py)                        *)
(*                                                                         *)
(* The transformer takes the FileItems in the order of its list, opens     *)
(* each one, iterates parse_pubmed_xml over the open file and yields every *)
(* record wrapped by _wrap_record.  The parser's actions above are the     *)
(* inner generator; the actions below are the for loop, the with block and *)
(* the except handler around it.                                           *)

\* largest number of FileItems in one call
MaxFiles == 2

\* latest reading of the clock
MaxClock == 2

\* json.dumps without sort_keys: the members in insertion order
JsonDumpsUnsorted(v) ==
    IF v.k = "dict"
    THEN [k |-> "object",
          members |-> MapNodes([i \in 1..Len(v.items) |->
                                  [key |-> v.items[i].key, val |-> v.items[i].val]],
                               Len(v.items), <<>>)]
    ELSE v

RECURSIVE JsonDumps(_)
\* json.dumps(record, sort_keys=True): the members of an object are written
\* in the order of their keys, whatever order they were inserted in
JsonDumps(v) ==
    IF v.k = "dict"
    THEN [k |-> "object",
          members |-> { [key |-> v.items[i].key, val |-> JsonDumps(v.items[i].val)] :
                          i \in 1..Len(v.items) }]
    ELSE IF v.k = "list"
    THEN [k |-> "array",
          items |-> MapNodes([i \in 1..Len(v.items) |-> JsonDumps(v.items[i])],
                             Len(v.items), <<>>)]
    ELSE v

\* hashlib.md5(...).hexdigest(): a digest of the text and of nothing else
Md5(text) == [md5 |-> text]

\* a wrapper that leaves the time and the hash out
WrapBare(record, file_name, ts) == [file_name |-> file_name, raw_data |-> record]

\* _wrap_record, ts being what time.time() returns
WrapRecord(record, file_name, ts) ==
    [file_name    |-> file_name,
     ingestion_ts |-> ts,
     content_hash |-> Md5(JsonDumps(record)),
     raw_data     |-> record]

\* a handler that logs the failure and goes on with the next file
LogOnly(e) == [raised |-> FALSE, exc |-> e]

\* except Exception as e: logger.error(...); raise e
ExceptHandler(e) == [raised |-> TRUE, exc |-> e]

\* for file_item in file_items, with file_item.open() as f: the file opens
OpenFile ==
    /\ ppc = "next"
    /\ fileIdx < Len(files)
    /\ files[fileIdx + 1].openOk
    /\ fileIdx' = fileIdx + 1
    /\ ppc' = "parsing"
    /\ stream' = files[fileIdx + 1].stream
    /\ input' = files[fileIdx + 1].input
    /\ tree' = files[fileIdx + 1].input.doc
    /\ pos' = 0
    /\ evIdx' = 0
    /\ cur' = NoElem
    /\ pc' = "start"
    /\ UNCHANGED <<records, origin, releases, error, files, items, perr, now, downstream>>

\* file_item.open() raises
OpenFails ==
    /\ ppc = "next"
    /\ fileIdx < Len(files)
    /\ ~files[fileIdx + 1].openOk
    /\ fileIdx' = fileIdx + 1
    /\ LET h == ExceptHandler(files[fileIdx + 1].openErr)
       IN  IF h.raised
           THEN ppc' = "raised" /\ perr' = h.exc
           ELSE ppc' = "next" /\ UNCHANGED perr
    /\ UNCHANGED <<parseVars, files, items, now, downstream>>

\* yield _wrap_record(record, file_name)
YieldItem ==
    /\ ppc = "parsing"
    /\ pc = "yielded"
    /\ Len(items) < Len(records)
    /\ \E ts \in { t \in {now, now + 1} : t <= MaxClock } :
         /\ now' = ts
         /\ items' = Append(items, WrapRecord(records[Len(records)],
                                              files[fileIdx].file_name, ts))
    /\ UNCHANGED <<parseVars, files, fileIdx, ppc, perr, downstream>>

\* the consumer asks for the next item: the for loop asks the parser for
\* its next record
Resume ==
    /\ ppc = "parsing"
    /\ Len(items) = Len(records)
    /\ Release

\* parse_pubmed_xml is exhausted: the with block closes the file
FileDone ==
    /\ ppc = "parsing"
    /\ pc = "done"
    /\ ppc' = "next"
    /\ UNCHANGED <<parseVars, files, fileIdx, items, perr, now, downstream>>

\* parse_pubmed_xml raises: the with block closes the file, then the handler
FileRaised ==
    /\ ppc = "parsing"
    /\ pc = "raised"
    /\ LET h == ExceptHandler(error)
       IN  IF h.raised
           THEN ppc' = "raised" /\ perr' = h.exc
           ELSE ppc' = "next" /\ UNCHANGED perr
    /\ UNCHANGED <<parseVars, files, fileIdx, items, now, downstream>>

\* the list is exhausted
PipeDone ==
    /\ ppc = "next"
    /\ fileIdx = Len(files)
    /\ ppc' = "done"
    /\ UNCHANGED <<parseVars, files, fileIdx, items, perr, now, downstream>>

NextPipe ==
    \/ OpenFile
    \/ OpenFails
    \/ Probe
    \/ SkipElement
    \/ HandleRecordRoot
    \/ YieldItem
    \/ Resume
    \/ EndOfDocument
    \/ SyntaxError
    \/ FileDone
    \/ FileRaised
    \/ PipeDone

(* Inputs: the k-th file has its own name and its own text, so that a     *)
(* record tells which file it was parsed from                             *)

FileNames == <<"pubmed1.xml", "pubmed2.xml", "pubmed3.xml", "pubmed4.xml">>

\* <PubmedArticleSet><PubmedArticle><Title>x</Title></PubmedArticle></PubmedArticleSet>
OneCitation(x) ==
    << Elem(0, "PubmedArticleSet"), Elem(1, "PubmedArticle"),
       [Elem(2, "Title") EXCEPT !.text = <<x>>] >>

\* <PubmedArticleSet><DeleteCitation>x</DeleteCitation><PubmedArticle>x</PubmedArticle></PubmedArticleSet>
DeleteThenCitation(x) ==
    << Elem(0, "PubmedArticleSet"), [Elem(1, "DeleteCitation") EXCEPT !.text = <<x>>],
       [Elem(1, "PubmedArticle") EXCEPT !.text = <<x>>] >>

\* <PubmedArticleSet><PubmedArticle>x</PubmedArticle>j</PubmedArticleSet>
CitationThenText(x) ==
    << Elem(0, "PubmedArticleSet"),
       [Elem(1, "PubmedArticle") EXCEPT !.text = <<x>>, !.tail = <<"j">>] >>

\* <PubmedArticleSet><PubmedArticle><first>t</first><second>u</second>
\* </PubmedArticle></PubmedArticleSet>, first and second being Title and
\* Year in either order
TwoFields(first, second) ==
    LET txt(tg) == IF tg = "Title" THEN <<"t">> ELSE <<"u">>
    IN  << Elem(0, "PubmedArticleSet"), Elem(1, "PubmedArticle"),
           [Elem(2, first) EXCEPT !.text = txt(first)],
           [Elem(2, second) EXCEPT !.text = txt(second)] >>

\* what the k-th FileItem can be
FileCases(k) ==
    LET x == Letters[k]
        file(ok, st, in) ==
            [file_name |-> FileNames[k], openOk |-> ok, openErr |-> "OSError",
             stream |-> st, input |-> in]
    IN  { file(FALSE, PlainStream, WellFormed(EmptyDoc)),
          file(TRUE, [PlainStream EXCEPT !.size = 0], WellFormed(EmptyDoc)),
          file(TRUE, PlainStream, WellFormed(EmptyDoc)),
          file(TRUE, PlainStream, WellFormed(OneCitation(x))),
          file(TRUE, PlainStream, WellFormed(DeleteThenCitation(x))),
          file(TRUE, PlainStream, Malformed(DeleteThenCitation(x), "syntax", 1)),
          file(TRUE, PlainStream, Malformed(OneCitation(x), "limit", 0)),
          file(TRUE, PlainStream, WellFormed(CitationThenText(x))),
          file(TRUE, PlainStream, WellFormed(TwoFields("Title", "Year"))),
          file(TRUE, PlainStream, WellFormed(TwoFields("Year", "Title"))) }

\* the position of a file name in ascending alphanumeric order
FileRank(file_name) == CHOOSE i \in 1..Len(FileNames) : FileNames[i] = file_name

\* sorted(files): the names in ascending order
RECURSIVE Sorted(_)
Sorted(names) ==
    IF names = <<>> THEN <<>>
    ELSE LET least == CHOOSE i \in 1..Len(names) :
                          \A j \in 1..Len(names) :
                              FileRank(names[i]) <= FileRank(names[j])
         IN  <<names[least]>>
             \o Sorted(SubSeq(names, 1, least - 1) \o SubSeq(names, least + 1, Len(names)))

\* list_remote_files: the globbed paths, sorted; the pipeline does not call
\* it, its files come from the filesystem source in the order of the listing
ListRemoteFiles(globbed) == Sorted(globbed)

\* the files in the order p of a listing
RECURSIVE Listed(_, _, _)
Listed(fs, p, i) ==
    IF i > Len(fs) THEN <<>> ELSE <<fs[p[i]]>> \o Listed(fs, p, i + 1)

InitPipe ==
    /\ \E n \in 0..MaxFiles : \E fs \in Pieces([k \in 1..n |-> FileCases(k)]) :
          \E p \in Permutations(1..n) : files = Listed(fs, p, 1)
    /\ fileIdx = 0
    /\ items = <<>>
    /\ ppc = "next"
    /\ perr = ""
    /\ now = 0
    /\ stream = PlainStream
    /\ input = WellFormed(EmptyDoc)
    /\ pos = 0
    /\ tree = EmptyDoc
    /\ evIdx = 0
    /\ cur = NoElem
    /\ pc = "idle"
    /\ records = <<>>
    /\ origin = <<>>
    /\ releases = 0
    /\ error = ""
    /\ NoRun /\ NoSweep /\ NoMerge

\* pubmed_xml_parser over every short list of files
SpecPipe == InitPipe /\ [][NextPipe]_vars

\* the records parse_pubmed_xml can make of the file f
RecordsOf(f) ==
    { RecordOf(f.input.doc, n) :
        n \in { m \in 1..Len(f.input.doc) : IsRecordRoot(f.input.doc[m].tag) } }

\* C15: every item emitted by pubmed_xml_parser has exactly the fields
\* file_name, ingestion_ts, content_hash and raw_data; raw_data is the parsed
\* record unchanged and file_name is the name of the file that record was
\* parsed from, also when several files are processed in one call.
C15_ItemsAreWrappedRecords ==
    /\ Len(items) <= Len(records)
    /\ \A i \in 1..Len(items) :
          /\ DOMAIN items[i] = {"file_name", "ingestion_ts", "content_hash", "raw_data"}
          /\ items[i].raw_data = records[i]
          /\ \E k \in 1..fileIdx :
                /\ items[i].file_name = files[k].file_name
                /\ items[i].raw_data \in RecordsOf(files[k])

\* two files were processed to the end and each gave an item under its name
C15_Witness ==
    /\ ppc = "done"
    /\ Len(files) = 2
    /\ Len(items) = 2
    /\ items[1].file_name = FileNames[1] /\ items[2].file_name = FileNames[2]
    /\ items[1].raw_data # items[2].raw_data

\* the file cannot be opened, or the parser fails on it whatever it does
FailsToOpen(f) == ~f.openOk
FailsToParse(f) == f.openOk /\ f.stream.size = 2 /\ f.input.err # "none"

\* the exception the file at hand has raised
Raised == IF FailsToOpen(files[fileIdx]) THEN files[fileIdx].openErr ELSE error

\* C16: if opening or parsing a file raises, pubmed_xml_parser re-raises
\* that same exception to its caller: the failure is never swallowed, and no
\* record of any later file in the list is emitted after it.
C16_FailurePropagates ==
    /\ \A k \in 1..Len(files) :
          (FailsToOpen(files[k]) \/ FailsToParse(files[k])) =>
              /\ fileIdx <= k
              /\ ppc # "done"
              /\ \A i \in 1..Len(items) :
                    \E j \in 1..k : items[i].file_name = files[j].file_name
    /\ pc = "raised" =>
          /\ ppc \in {"parsing", "raised"}
          /\ \A i \in 1..Len(items) :
                \E j \in 1..fileIdx : items[i].file_name = files[j].file_name
    /\ ppc = "raised" => perr = Raised /\ perr # ""

\* the first of two files gave a record and then failed to parse: the
\* parser's error has left the transformer and the second file, which holds
\* records, was never opened
C16_Witness ==
    /\ ppc = "raised" /\ perr = "XMLSyntaxError"
    /\ Len(files) = 2 /\ fileIdx = 1
    /\ Len(items) = 1
    /\ files[2].openOk /\ RecordsOf(files[2]) # {}

-----------------------------------------------------------------------------
(* run and _prepare_baseline_load (main.py)                                *)
(*                                                                         *)
(* env: load        the --load option                                      *)
(*      dry_run     the --dry-run option                                   *)
(*      cursor      what the pipeline state holds for the file_name cursor *)
(*                  of pubmed_baseline: "absent" (an empty state), "other" *)
(*                  (only pubmed_updates has a cursor), "null" (the key    *)
(*                  last_value holds None) or "set" (a file name)          *)
(*      stateOk     reading pipeline.state does not raise                  *)
(*      clientOk    pipeline.sql_client() can be entered                   *)
(*      truncateOk  execute_sql does not raise                             *)
(*      runOutcome  pipeline.run: "ok", "failed_jobs" or "raises"          *)
(*      dbtOk       the dbt build does not raise                           *)

\* dict.get(key, default)
PyGet(d, key, default) == IF key \in Keys(d) THEN d.items[Get(d, key)].val ELSE default

\* the truth value Python gives a value
Truthy(v) ==
    IF v.k = "none" THEN FALSE
    ELSE IF v.k = "str" THEN v.s # <<>>
    ELSE v.items # <<>>

Entry(key, val) == Dict(<< [key |-> key, val |-> val] >>)

\* the state dlt keeps for a source whose resource has the cursor value lv
StateWith(resource, lv) ==
    Entry("sources", Entry("pubmed_source", Entry("resources", Entry(resource,
        Entry("incremental", Entry("file_name", Entry("last_value", lv)))))))

\* pipeline.state
StateOf(cursor) ==
    IF cursor = "absent" THEN Dict(<<>>)
    ELSE IF cursor = "other" THEN StateWith("pubmed_updates", Str(<<"pubmed24n1300.xml.gz">>))
    ELSE IF cursor = "null" THEN StateWith("pubmed_baseline", None)
    ELSE StateWith("pubmed_baseline", Str(<<"pubmed24n0001.xml.gz">>))

\* lines 78-81: the chain of .get calls down to the cursor's state
IncrementalState(state, source_name) ==
    LET source_state   == PyGet(PyGet(state, "sources", Dict(<<>>)), source_name, Dict(<<>>))
        resource_state == PyGet(PyGet(source_state, "resources", Dict(<<>>)),
                                "pubmed_baseline", Dict(<<>>))
    IN  PyGet(PyGet(resource_state, "incremental", Dict(<<>>)), "file_name", Dict(<<>>))

\* a check that takes every run for a fresh one
AlwaysFresh(state, source_name) == TRUE

\* line 84: not incremental_state.get("last_value")
IsFreshRun(state, source_name) ==
    ~Truthy(PyGet(IncrementalState(state, source_name), "last_value", None))

\* line 87: the statement, for the dataset of the pipeline
TruncateStmt(dataset_name) == "TRUNCATE TABLE " \o dataset_name \o ".bronze_pubmed_baseline"

\* a _prepare_baseline_load whose failures escape it
PrepareOutcomeRaising(e) ==
    IF ~e.stateOk
    THEN [sql |-> <<>>, raised |-> TRUE]
    ELSE IF ~IsFreshRun(StateOf(e.cursor), "pubmed_source")
    THEN [sql |-> <<>>, raised |-> FALSE]
    ELSE IF ~e.clientOk
    THEN [sql |-> <<>>, raised |-> TRUE]
    ELSE IF ~e.truncateOk
    THEN [sql |-> <<TruncateStmt("pubmed")>>, raised |-> TRUE]
    ELSE [sql |-> <<TruncateStmt("pubmed")>>, raised |-> FALSE]

\* _prepare_baseline_load: the statements it hands to execute_sql and
\* whether an exception leaves it
PrepareOutcome(e) ==
    IF ~e.stateOk
    THEN [sql |-> <<>>, raised |-> FALSE]                       \* lines 99-100
    ELSE IF ~IsFreshRun(StateOf(e.cursor), "pubmed_source")
    THEN [sql |-> <<>>, raised |-> FALSE]                       \* lines 94-97
    ELSE IF ~e.clientOk
    THEN [sql |-> <<>>, raised |-> FALSE]                       \* lines 99-100
    ELSE IF ~e.truncateOk
    THEN [sql |-> <<TruncateStmt("pubmed")>>, raised |-> FALSE] \* lines 92-93
    ELSE [sql |-> <<TruncateStmt("pubmed")>>, raised |-> FALSE] \* lines 88-91

\* lines 128-132
ResourcesToRun(load) ==
    (IF load \in {"baseline", "all"} THEN <<"pubmed_baseline">> ELSE <<>>) \o
    (IF load \in {"updates", "all"} THEN <<"pubmed_updates">> ELSE <<>>)

\* a run that goes on to the transformations unless the load raised
UnlessRaised(outcome) == IF outcome = "raises" THEN "exit" ELSE "dbt"

\* lines 150-165: what follows pipeline.run
AfterLoad(outcome) ==
    IF outcome = "raises" THEN "exit"               \* except Exception: sys.exit(1)
    ELSE IF outcome = "failed_jobs" THEN "exit"     \* info.has_failed_jobs: sys.exit(1)
    ELSE "dbt"

\* if dry_run: return
DryRun ==
    /\ mpc = "start"
    /\ env.dry_run
    /\ mpc' = "returned"
    /\ UNCHANGED <<env, sql, calls, exitCode, extraction, dedupVars, mergeVars>>

\* lines 127-146, up to the call of _prepare_baseline_load
SelectResources ==
    /\ mpc = "start"
    /\ ~env.dry_run
    /\ mpc' = IF ResourcesToRun(env.load) = <<>> THEN "returned"
              ELSE IF "pubmed_baseline" \in Range(ResourcesToRun(env.load)) THEN "prepare"
              ELSE "load"
    /\ UNCHANGED <<env, sql, calls, exitCode, extraction, dedupVars, mergeVars>>

\* _prepare_baseline_load(pipeline, source)
PrepareBaselineLoad ==
    /\ mpc = "prepare"
    /\ sql' = sql \o PrepareOutcome(env).sql
    /\ IF PrepareOutcome(env).raised
       THEN mpc' = "exited" /\ exitCode' = 1
       ELSE mpc' = "load" /\ UNCHANGED exitCode
    /\ UNCHANGED <<env, calls, extraction, dedupVars, mergeVars>>

\* info = pipeline.run(source) and the check of its result
RunPipeline ==
    /\ mpc = "load"
    /\ calls' = Append(calls, "pipeline.run")
    /\ IF AfterLoad(env.runOutcome) = "dbt"
       THEN mpc' = "dbt" /\ UNCHANGED exitCode
       ELSE mpc' = "exited" /\ exitCode' = 1
    /\ UNCHANGED <<env, sql, extraction, dedupVars, mergeVars>>

\* run_dbt_transformations(pipeline); a failure is re-raised into the
\* handler of run
RunDbt ==
    /\ mpc = "dbt"
    /\ calls' = Append(calls, "dbt build")
    /\ IF env.dbtOk
       THEN mpc' = "returned" /\ UNCHANGED exitCode
       ELSE mpc' = "exited" /\ exitCode' = 1
    /\ UNCHANGED <<env, sql, extraction, dedupVars, mergeVars>>

NextMain ==
    \/ DryRun
    \/ SelectResources
    \/ PrepareBaselineLoad
    \/ RunPipeline
    \/ RunDbt

InitMain ==
    /\ \E ld \in {"baseline", "updates", "all"} : \E dr \in BOOLEAN :
       \E cu \in {"absent", "other", "null", "set"} :
       \E so \in BOOLEAN : \E co \in BOOLEAN : \E tr \in BOOLEAN :
       \E ro \in {"ok", "failed_jobs", "raises"} : \E db \in BOOLEAN :
          env = [load |-> ld, dry_run |-> dr, cursor |-> cu, stateOk |-> so,
                 clientOk |-> co, truncateOk |-> tr, runOutcome |-> ro, dbtOk |-> db]
    /\ mpc = "start"
    /\ sql = <<>>
    /\ calls = <<>>
    /\ exitCode = 0
    /\ NoSweep /\ NoMerge
    /\ files = <<>> /\ fileIdx = 0 /\ items = <<>> /\ ppc = "none" /\ perr = "" /\ now = 0
    /\ stream = PlainStream /\ input = WellFormed(EmptyDoc) /\ pos = 0 /\ tree = EmptyDoc
    /\ evIdx = 0 /\ cur = NoElem /\ pc = "idle" /\ records = <<>> /\ origin = <<>>
    /\ releases = 0 /\ error = ""

\* run under every option and every behaviour of its collaborators
SpecMain == InitMain /\ [][NextMain]_vars

\* _prepare_baseline_load has been called and has returned
BaselinePrepared == mpc \in {"load", "dbt", "returned", "exited"} /\ env.load # "updates" /\ ~env.dry_run

\* the state holds a last_value for the file_name cursor of pubmed_baseline
Resumed == env.cursor = "set"

\* C17 as stated: _prepare_baseline_load issues the TRUNCATE exactly when
\* the pipeline state holds no last_value for the file_name cursor of
\* pubmed_baseline, and executes no SQL at all when such a last_value exists.
C17_TruncateExactlyOnFreshRun ==
    BaselinePrepared =>
        /\ (TruncateStmt("pubmed") \in Range(sql)) <=> ~Resumed
        /\ Resumed => sql = <<>>

\* C17, amended: the TRUNCATE is issued exactly when the pipeline state can
\* be read, holds no last_value for the file_name cursor of pubmed_baseline
\* and the SQL client can be opened; it is then the only statement.  No SQL
\* at all is executed when such a last_value exists, nor when reading the
\* state or opening the client fails.
C17_TruncateOnFreshRunWhenReachable ==
    BaselinePrepared =>
        /\ Resumed => sql = <<>>
        /\ (~env.stateOk \/ ~env.clientOk) => sql = <<>>
        /\ (~Resumed /\ env.stateOk /\ env.clientOk) => sql = <<TruncateStmt("pubmed")>>

\* only pubmed_updates has a cursor: the baseline run is fresh and the
\* table was truncated
C17_Witness ==
    /\ BaselinePrepared
    /\ env.cursor = "other" /\ env.stateOk /\ env.clientOk
    /\ sql = <<"TRUNCATE TABLE pubmed.bronze_pubmed_baseline">>

\* C18: run invokes the dbt transformations only after pipeline.run has
\* returned with no failed jobs; if the load reports failed jobs or raises,
\* the process exits with status 1 and the transformations are not run.
C18_DbtOnlyAfterCleanLoad ==
    /\ "dbt build" \in Range(calls) =>
          /\ calls = <<"pipeline.run", "dbt build">>
          /\ env.runOutcome = "ok"
    /\ ("pipeline.run" \in Range(calls) /\ env.runOutcome # "ok") =>
          /\ mpc = "exited"
          /\ exitCode = 1
          /\ calls = <<"pipeline.run">>

\* the load reported failed jobs: the process has exited with status 1
\* without a dbt build
C18_Witness ==
    /\ env.runOutcome = "failed_jobs"
    /\ mpc = "exited" /\ exitCode = 1
    /\ calls = <<"pipeline.run">>

-----------------------------------------------------------------------------
(* run_deduplication_sweep (pipelines/deduplication.py)                    *)
(*                                                                         *)
(* The two bronze tables hold the items pubmed_xml_parser emits; raw_data  *)
(* is a jsonb column.  The DELETE ... USING statement is computed on the   *)
(* rows with PostgreSQL's meaning of ->, ->>, jsonb_typeof, CASE and of a  *)
(* comparison with NULL.                                                   *)

\* largest number of rows in a bronze table
MaxRows == 2

SqlNull == [k |-> "sqlnull"]

\* x -> 'key': the member of a JSON object, else NULL
Arrow(x, key) == IF x.k = "dict" /\ key \in Keys(x) THEN x.items[Get(x, key)].val ELSE SqlNull

\* x -> i: the element of a JSON array, counted from 0, else NULL
ArrowAt(x, i) == IF x.k = "list" /\ i < Len(x.items) THEN x.items[i + 1] ELSE SqlNull

\* the text ->> returns for a JSON value: NULL for JSON null and for NULL
AsText(x) == IF x.k = "str" THEN x ELSE IF x.k \in {"none", "sqlnull"} THEN SqlNull ELSE x

\* a = b in a WHERE clause: not true when either side is NULL
SqlEquals(a, b) == a # SqlNull /\ b # SqlNull /\ a = b

\* an extraction that finds the citation inside the PubmedArticle
PmidExtractNested(raw_data) ==
    LET pmid == ArrowAt(Arrow(Arrow(Arrow(raw_data, "PubmedArticle"), "MedlineCitation"),
                              "PMID"), 0)
    IN  IF pmid.k = "str" THEN AsText(pmid) ELSE AsText(Arrow(pmid, "#text"))

\* get_pmid_extract: the CASE expression over raw_data
PmidExtract(raw_data) ==
    LET pmid == ArrowAt(Arrow(Arrow(raw_data, "MedlineCitation"), "PMID"), 0)
    IN  IF pmid.k = "str" THEN AsText(pmid) ELSE AsText(Arrow(pmid, "#text"))

\* DELETE FROM updates AS u USING baseline AS b WHERE extract(u) = extract(b)
DedupSql(upd, base) ==
    SelectSeq(upd, LAMBDA u :
        ~\E i \in 1..Len(base) :
            SqlEquals(PmidExtract(u.raw_data), PmidExtract(base[i].raw_data)))

\* client.execute_sql(dedup_sql) succeeds
Sweep ==
    /\ dpc = "start"
    /\ updates' = DedupSql(updates, baseline)
    /\ dpc' = "done"
    /\ UNCHANGED <<baseline, extraction, mainVars, mergeVars>>

\* client.execute_sql(dedup_sql) raises: logged and re-raised
SweepFails ==
    /\ dpc = "start"
    /\ dpc' = "raised"
    /\ UNCHANGED <<baseline, updates, extraction, mainVars, mergeVars>>

NextDedup ==
    \/ Sweep
    \/ SweepFails

(* Inputs: rows made by parse_pubmed_xml and _wrap_record of small files  *)

Pmids == {"1", "2"}

\* <PubmedArticleSet><PubmedArticle><MedlineCitation><PMID Version="1">p</PMID>
\* </MedlineCitation></PubmedArticle></PubmedArticleSet>, with or without
\* the Version attribute
CitationDoc(p, versioned) ==
    << Elem(0, "PubmedArticleSet"), Elem(1, "PubmedArticle"), Elem(2, "MedlineCitation"),
       [Elem(3, "PMID") EXCEPT
           !.text = <<p>>,
           !.attrs = IF versioned
                     THEN <<[prefix |-> "", name |-> "Version", val |-> <<"1">>]>>
                     ELSE <<>>] >>

\* <PubmedArticleSet><DeleteCitation><PMID>p</PMID></DeleteCitation></PubmedArticleSet>
DeleteDoc(p) ==
    << Elem(0, "PubmedArticleSet"), Elem(1, "DeleteCitation"),
       [Elem(2, "PMID") EXCEPT !.text = <<p>>] >>

\* the row the pipeline loads for the record root of the document d
RowOf(d, file_name) == WrapRecord(RecordOf(d, 2), file_name, 1)

CitationRows(file_name) ==
    { RowOf(CitationDoc(p, v), file_name) : p \in Pmids, v \in BOOLEAN }
DeleteRows(file_name) == { RowOf(DeleteDoc(p), file_name) : p \in Pmids }

InitDedup ==
    /\ \E n \in 0..MaxRows :
       \E rows \in Pieces([i \in 1..n |-> CitationRows("pubmed24n0001.xml.gz")]) :
          baseline = rows
    /\ \E n \in 0..MaxRows :
       \E rows \in Pieces([i \in 1..n |-> CitationRows("pubmed24n1300.xml.gz")
                                            \cup DeleteRows("pubmed24n1300.xml.gz")]) :
          updates = rows
    /\ dpc = "start"
    /\ NoRun /\ NoMerge
    /\ files = <<>> /\ fileIdx = 0 /\ items = <<>> /\ ppc = "none" /\ perr = "" /\ now = 0
    /\ stream = PlainStream /\ input = WellFormed(EmptyDoc) /\ pos = 0 /\ tree = EmptyDoc
    /\ evIdx = 0 /\ cur = NoElem /\ pc = "idle" /\ records = <<>> /\ origin = <<>>
    /\ releases = 0 /\ error = ""

\* the sweep over every pair of small tables
SpecDedup == InitDedup /\ [][NextDedup]_vars

IsCitationRow(r) == Lookup(r.raw_data, "_record_type") = Str(<<"citation">>)

\* the PMID of the citation a row holds, read where the parser puts it
CitationPmid(r) ==
    LET mc == Lookup(Lookup(r.raw_data, "PubmedArticle"), "MedlineCitation")
    IN  OwnText(Lookup(mc, "PMID").items[1])

\* C19: after run_deduplication_sweep succeeds on tables loaded by this
\* pipeline, the updates table contains no citation record whose PMID equals
\* the PMID of a record in the baseline table.
C19_NoUpdateSharesBaselinePmid ==
    dpc = "done" =>
        \A i \in 1..Len(updates) : \A j \in 1..Len(baseline) :
            IsCitationRow(updates[i]) => CitationPmid(updates[i]) # CitationPmid(baseline[j])

-----------------------------------------------------------------------------
(* The hard-delete merge, as tests/test_compliance_audit.py simulates the  *)
(* incremental model and its post-hook (_simulate_incremental_delete).     *)
(*                                                                         *)
(* A batch row is [pmid, operation, ingestion_ts, file_name, title]; a     *)
(* table row is [source_id, ingestion_ts, title].                          *)

\* largest number of rows in a batch
MaxBatch == 2

\* latest ingestion_ts of a batch row
MaxTs == 2

\* the file names of batch rows, in ascending order
BatchFiles == <<"pubmed24n0001.xml", "pubmed24n0002.xml">>

\* the place of a file name in the order of strings
NameRank(file_name) == CHOOSE i \in 1..Len(BatchFiles) : BatchFiles[i] = file_name

\* a ranking by ingestion_ts first, file_name second
TsThenFileName(a, b) ==
    \/ a.ingestion_ts > b.ingestion_ts
    \/ a.ingestion_ts = b.ingestion_ts /\ NameRank(a.file_name) > NameRank(b.file_name)

\* key=lambda x: (x.get("file_name", ""), x["ingestion_ts"]): a sorts
\* before b under reverse=True
RankedBefore(a, b) ==
    \/ NameRank(a.file_name) > NameRank(b.file_name)
    \/ a.file_name = b.file_name /\ a.ingestion_ts > b.ingestion_ts

\* rows.sort(key=..., reverse=True); winner = rows[0]: the sort is stable,
\* so among rows of equal key the first of the batch stays first
Winner(rows) ==
    rows[CHOOSE i \in 1..Len(rows) :
            /\ \A j \in 1..Len(rows) : ~RankedBefore(rows[j], rows[i])
            /\ \A j \in 1..(i - 1) : RankedBefore(rows[i], rows[j])]

\* a filter that lets the rows of the watermark's own timestamp through
AtOrAfterWatermark(updates_batch, watermark_ts) ==
    SelectSeq(updates_batch, LAMBDA r : r.ingestion_ts >= watermark_ts)

\* step 1: the rows newer than the watermark
ValidUpdates(updates_batch, watermark_ts) ==
    SelectSeq(updates_batch, LAMBDA r : r.ingestion_ts > watermark_ts)

\* batch_map[pmid]
RowsOf(valid, pmid) == SelectSeq(valid, LAMBDA r : r.pmid = pmid)

\* the keys of batch_map, in the order they were inserted
RECURSIVE BatchKeys(_, _)
BatchKeys(valid, seen) ==
    IF valid = <<>> THEN seen
    ELSE BatchKeys(Tail(valid),
                   IF Head(valid).pmid \in Range(seen) THEN seen
                   ELSE Append(seen, Head(valid).pmid))

\* step 2: ids_to_delete
IdsToDelete(valid) ==
    { pm \in Range(BatchKeys(valid, <<>>)) : Winner(RowsOf(valid, pm)).operation = "delete" }

\* step 4: current_state[pmid] = {...} for each upsert, in the order of
\* batch_map: an existing key keeps its place, a new key is appended
RECURSIVE ApplyUpserts(_, _, _)
ApplyUpserts(current, valid, keys) ==
    IF keys = <<>> THEN current
    ELSE LET w   == Winner(RowsOf(valid, Head(keys)))
             rec == [source_id |-> w.pmid, ingestion_ts |-> w.ingestion_ts, title |-> w.title]
             at  == { i \in 1..Len(current) : current[i].source_id = w.pmid }
             nxt == IF w.operation # "upsert" THEN current
                    ELSE IF at = {} THEN Append(current, rec)
                    ELSE [current EXCEPT ![CHOOSE i \in at : TRUE] = rec]
         IN  ApplyUpserts(nxt, valid, Tail(keys))

\* _simulate_incremental_delete
SimulateIncrementalDelete(existing_records, updates_batch, watermark_ts) ==
    LET valid   == ValidUpdates(updates_batch, watermark_ts)
        current == ApplyUpserts(existing_records, valid, BatchKeys(valid, <<>>))
    IN  SelectSeq(current, LAMBDA r : r.source_id \notin IdsToDelete(valid))

\* one run of the incremental model and its post-hook over the batch
Merge ==
    /\ runs < 2
    /\ table' = SimulateIncrementalDelete(table, batch, watermark)
    /\ runs' = runs + 1
    /\ UNCHANGED <<batch, watermark, extraction, mainVars, dedupVars>>

\* the greatest ingestion_ts of the rows, 0 for no rows
RECURSIVE MaxIngestionTs(_)
MaxIngestionTs(rows) ==
    IF rows = <<>> THEN 0
    ELSE LET m == MaxIngestionTs(Tail(rows))
         IN  IF Head(rows).ingestion_ts > m THEN Head(rows).ingestion_ts ELSE m

\* before the next run the watermark is taken anew: it has advanced to the
\* timestamps of the batch that was processed
AdvanceWatermark ==
    /\ runs = 1
    /\ watermark < MaxIngestionTs(batch)
    /\ watermark' = MaxIngestionTs(batch)
    /\ UNCHANGED <<table, batch, runs, extraction, mainVars, dedupVars>>

NextMerge ==
    \/ Merge
    \/ AdvanceWatermark

(* Inputs *)

BatchPmids == {"A", "B"}
Titles == <<"T1", "T2", "T3">>

\* what the i-th row of a batch can be
BatchRows(i) ==
    { [pmid |-> pm, operation |-> op, ingestion_ts |-> ts, file_name |-> BatchFiles[f],
       title |-> Titles[i]] :
        pm \in BatchPmids, op \in {"upsert", "delete"}, ts \in 1..MaxTs,
        f \in 1..Len(BatchFiles) }

OldRow(pm) == [source_id |-> pm, ingestion_ts |-> 1, title |-> "Old"]

InitMerge ==
    /\ \E n \in 0..MaxBatch : \E rows \in Pieces([i \in 1..n |-> BatchRows(i)]) : batch = rows
    /\ table \in { <<>>, <<OldRow("A")>>, <<OldRow("A"), OldRow("B")>> }
    /\ watermark \in 0..(MaxTs - 1)
    /\ runs = 0
    /\ NoRun /\ NoSweep
    /\ files = <<>> /\ fileIdx = 0 /\ items = <<>> /\ ppc = "none" /\ perr = "" /\ now = 0
    /\ stream = PlainStream /\ input = WellFormed(EmptyDoc) /\ pos = 0 /\ tree = EmptyDoc
    /\ evIdx = 0 /\ cur = NoElem /\ pc = "idle" /\ records = <<>> /\ origin = <<>>
    /\ releases = 0 /\ error = ""

\* the merge of every small batch into every small table
SpecMerge == InitMerge /\ [][NextMerge]_vars

\* the rows of the batch that take part in the merge, for one PMID
Rivals(pm) == RowsOf(ValidUpdates(batch, watermark), pm)

\* the table gives the outcome the row d stands for
OutcomeOf(d) ==
    IF d.operation = "delete"
    THEN \A i \in 1..Len(table) : table[i].source_id # d.pmid
    ELSE \E i \in 1..Len(table) :
            /\ table[i] = [source_id |-> d.pmid, ingestion_ts |-> d.ingestion_ts,
                           title |-> d.title]
            /\ \A j \in 1..Len(table) : table[j].source_id = d.pmid => j = i

RECURSIVE Opened(_)
Opened(i) == IF i = 0 THEN <<>> ELSE Append(Opened(i - 1), files[i].file_name)

\* C22: remote files are processed (opened and parsed) in ascending
\* alphanumeric order of their names, whatever order the remote listing
\* returns them in.
C22_FilesInAscendingOrder ==
    \A i \in 1..fileIdx : \A j \in 1..fileIdx :
        i < j => FileRank(files[i].file_name) < FileRank(files[j].file_name)

\* the same, against the sorting function: the files opened are the first
\* names of the sorted listing
C22_OpenedAsListRemoteFiles ==
    Opened(fileIdx) = SubSeq(ListRemoteFiles(Opened(Len(files))), 1, fileIdx)

\* elem.clear() and the deletion of the preceding siblings have been applied
\* to the element: no text, no attributes, no child and no preceding sibling
\* is left attached
IsReleased(t, elem) ==
    /\ t[elem].text = <<>>
    /\ t[elem].attrs = <<>>
    /\ \A i \in 1..Len(t) :
          /\ t[i].parent = elem => ~t[i].att
          /\ (i < elem /\ t[i].parent = t[elem].parent /\ t[elem].parent # 0) => ~t[i].att

\* C23: for every element whose closing tag is reached, whether it is a
\* record root that was emitted or an element that was skipped, the extractor
\* then releases it, clearing its content and discarding its preceding
\* siblings, before it continues with the next element.
C23_EveryClosedElementReleased ==
    (pc = "loop" /\ evIdx >= 1) =>
        IsReleased(tree, Events(stream, input, pos)[evIdx])

\* C24: no record is ever yielded for an element whose closing tag was not
\* reached: on an input such as an unclosed MedlineCitation inside
\* PubmedArticleSet, zero records are yielded before the error is raised.
C24_NoRecordOfUnclosedElement ==
    /\ \A i \in 1..Len(records) : origin[i] \in ClosedBeforeFailure
    /\ (input.err # "none" /\ input.cut = 0) => records = <<>>

\* the unclosed MedlineCitation: the error is raised and nothing was yielded
C24_Witness ==
    /\ input = Malformed(UnclosedCitation, "syntax", 0)
    /\ pc = "raised" /\ error = "XMLSyntaxError"
    /\ records = <<>>

\* reading pipeline.state raises, or the state is read, shows a fresh run,
\* and execute_sql raises on the TRUNCATE
PrepareFails ==
    \/ ~env.stateOk
    \/ env.stateOk /\ ~Resumed /\ env.clientOk /\ ~env.truncateOk

\* pipeline.run was the first call of run
RanPipeline == Len(calls) >= 1 /\ calls[1] = "pipeline.run"

\* C25: a failure while reading the pipeline state or while executing the
\* TRUNCATE in _prepare_baseline_load is swallowed: it never propagates out
\* of _prepare_baseline_load and never prevents run from invoking
\* pipeline.run afterwards.
C25_PrepareFailureSwallowed ==
    /\ [](PrepareFails =>
            /\ mpc \in {"dbt", "exited"} => RanPipeline
            /\ (mpc = "returned" /\ BaselinePrepared) => RanPipeline)
    /\ [][(mpc = "prepare" /\ PrepareFails) =>
            (mpc' = "load" /\ exitCode' = exitCode /\ calls' = calls)]_vars

\* the TRUNCATE was attempted and failed, and pipeline.run was invoked
C25_Witness ==
    /\ env.stateOk /\ ~Resumed /\ env.clientOk /\ ~env.truncateOk
    /\ sql = <<TruncateStmt("pubmed")>>
    /\ calls = <<"pipeline.run">>

\* an element of the record being yielded that has text, but no attributes
\* and no children; the text of a CDATA section is in the tree as ordinary
\* text
IsTextOnlyElement(n) ==
    tree[n].text # <<>> /\ tree[n].attrs = <<>> /\ Children(tree, n) = <<>>

C27_ProbeRestoresPosition ==
    (stream.size > 0 /\ pc # "start") =>
        /\ pos = 0
        /\ Fed(stream, pos) = stream.size

\* C28: every yielded record contains the complete content of its source
\* element as it appears in the input document, including when record-root
\* elements are nested inside one another: releasing one emitted element
\* never removes data from a record that is emitted later.
C28_RecordsHoldSourceAsWritten ==
    \A i \in 1..Len(records) : records[i] = RecordAsWritten(origin[i])

RECURSIVE SameTree(_, _)
SameTree(a, b) ==
    IF a.k = "dict" /\ b.k = "dict"
    THEN /\ Keys(a) = Keys(b)
         /\ \A key \in Keys(a) : SameTree(Lookup(a, key), Lookup(b, key))
    ELSE IF a.k = "list" /\ b.k = "list"
    THEN /\ Len(a.items) = Len(b.items)
         /\ \A i \in 1..Len(a.items) : SameTree(a.items[i], b.items[i])
    ELSE a = b

\* C30: the content_hash computed by _wrap_record is a function of the
\* record's content alone: two records that are equal as key/value trees
\* receive the same hash irrespective of key insertion order, file_name and
\* ingestion time, and wrapping does not modify the record.
C30_HashOfContentAlone ==
    /\ \A i \in 1..Len(items) : \A j \in 1..Len(items) :
          SameTree(items[i].raw_data, items[j].raw_data)
              => items[i].content_hash = items[j].content_hash
    /\ \A i \in 1..Len(items) : items[i].raw_data = records[i]

\* two files hold the same citation with its fields in the two orders: the
\* items differ in file_name, in ingestion_ts and in the order of the keys,
\* and carry the same hash
C30_Witness ==
    /\ Len(items) = 2
    /\ items[1].file_name # items[2].file_name
    /\ items[1].ingestion_ts # items[2].ingestion_ts
    /\ items[1].raw_data # items[2].raw_data
    /\ SameTree(items[1].raw_data, items[2].raw_data)
    /\ items[1].content_hash = items[2].content_hash

\* the rows of the table that belong to one PMID
TableRows(t, pm) == SelectSeq(t, LAMBDA r : r.source_id = pm)

\* the rows of the batch that are newer than the watermark
NewerRows == SelectSeq(batch, LAMBDA r : r.ingestion_ts > watermark)

\* C21: batch rows whose ingestion_ts is less than or equal to the watermark
\* have no effect on the table, they neither upsert nor delete: a run gives
\* the table it gives without them and leaves alone every PMID that has only
\* such rows; so applying an already processed batch again after the
\* watermark has advanced to its timestamps leaves the table unchanged.
C21_StaleRowsHaveNoEffect ==
    [][runs' = runs + 1 =>
        /\ table' = SimulateIncrementalDelete(table, NewerRows, watermark)
        /\ \A pm \in BatchPmids :
              (\A i \in 1..Len(batch) :
                  batch[i].pmid = pm => batch[i].ingestion_ts <= watermark)
              => TableRows(table', pm) = TableRows(table, pm)
        /\ (runs = 1 /\ watermark >= MaxIngestionTs(batch)) => table' = table]_vars

\* a batch that upserted B was applied again after the watermark had
\* advanced to its timestamp
C21_Witness ==
    /\ runs = 2
    /\ Len(batch) = 1 /\ batch[1].operation = "upsert" /\ batch[1].pmid = "B"
    /\ batch[1].ingestion_ts = MaxTs
    /\ watermark = MaxTs
    /\ table = <<OldRow("A"), [source_id |-> "B", ingestion_ts |-> MaxTs, title |-> "T1"]>>

====
